---- MODULE Spec2Model ----
(***************************************************************************)
(* Model of the data-processing core of the TikTok Reality Check app       *)
(* (src/logic.py, with the dashboard copies of the calculations in         *)
(* src/app.py): the smart finder of the video history list, the            *)
(* normalisation of the located list into a table, and the statistics and  *)
(* persona calculations over that table.                                   *)
(***************************************************************************)
EXTENDS Integers, Sequences, FiniteSets, TLC

(***************************************************************************)
(* Bounds of the model.                                                    *)
(***************************************************************************)
\* longest record list of the rich-record documents
MaxRecs == 2
\* longest table handed to calculate_stats / get_persona
MaxRows == 3
\* largest avg_duration (seconds) tried
MaxAvg == 3

(***************************************************************************)
(* JSON values.  A parsed document is a tree of nodes of one shape:        *)
(*   k    : "map" | "list" | "str" | "null"                                *)
(*   keys : the keys of a map, in insertion order (<<>> otherwise)         *)
(*   kids : the values of a map (kids[i] under keys[i]) or the items of a  *)
(*          list, in order (<<>> for a scalar)                             *)
(*   s    : the text of a string ("" otherwise)                            *)
(* A node of a document is identified by its path: the sequence of child   *)
(* positions leading to it from the root.                                  *)
(***************************************************************************)
Str(s) == [k |-> "str", keys |-> <<>>, kids |-> <<>>, s |-> s]
Null == [k |-> "null", keys |-> <<>>, kids |-> <<>>, s |-> ""]
Map(keys, kids) == [k |-> "map", keys |-> keys, kids |-> kids, s |-> ""]
List(kids) == [k |-> "list", keys |-> <<>>, kids |-> kids, s |-> ""]

\* isinstance(x, dict), isinstance(x, list), `key in x`, x[key]
IsDict(n) == n.k = "map"
IsList(n) == n.k = "list"
HasKey(n, key) == \E i \in 1..Len(n.keys) : n.keys[i] = key
KeyIndex(n, key) == CHOOSE i \in 1..Len(n.keys) : n.keys[i] = key

RECURSIVE NodeAt(_, _)
NodeAt(n, p) == IF p = <<>> THEN n ELSE NodeAt(n.kids[Head(p)], Tail(p))

\* Python's None result, and a found node (by its path in the document)
None == [found |-> FALSE, path |-> <<>>]
Some(p) == [found |-> TRUE, path |-> p]

(***************************************************************************)
(* Strategy 1: known paths (logic.py, _find_by_known_paths).               *)
(***************************************************************************)
\* the list with its last two paths exchanged
known_paths_reordered ==
    << <<"Activity", "Video Browsing History", "VideoList">>,
       <<"Video Browsing History", "VideoList">>,
       <<"Activity", "Favorite Videos", "FavoriteVideoList">> >>

known_paths ==
    << <<"Activity", "Video Browsing History", "VideoList">>,
       <<"Activity", "Favorite Videos", "FavoriteVideoList">>,
       <<"Video Browsing History", "VideoList">> >>

\* the inner `for key in path` loop: found iff the loop ends without break
RECURSIVE WalkPath(_, _, _)
WalkPath(current, path, at) ==
    IF path = <<>> THEN Some(at)
    ELSE IF IsDict(current) /\ HasKey(current, Head(path))
         THEN LET i == KeyIndex(current, Head(path))
              IN  WalkPath(current.kids[i], Tail(path), Append(at, i))
         ELSE None

\* the test of one path without `len(current) > 0`
PathSucceedsAnyList(data, path) ==
    LET w == WalkPath(data, path, <<>>)
    IN  w.found /\ IsList(NodeAt(data, w.path))

\* the for-else test of one path: a non-empty list at the end of the path
PathSucceeds(data, path) ==
    LET w == WalkPath(data, path, <<>>)
    IN  w.found /\ IsList(NodeAt(data, w.path))
                /\ Len(NodeAt(data, w.path).kids) > 0

RECURSIVE TryPaths(_, _)
TryPaths(data, paths) ==
    IF paths = <<>> THEN None
    ELSE IF PathSucceeds(data, Head(paths))
         THEN WalkPath(data, Head(paths), <<>>)
         ELSE TryPaths(data, Tail(paths))

find_by_known_paths(data) == TryPaths(data, known_paths)

(***************************************************************************)
(* Strategy 2: recursive search for a key (logic.py, _find_by_key_name).   *)
(***************************************************************************)
RECURSIVE find_by_key_name(_, _, _)
RECURSIVE KeyNameChildren(_, _, _, _)

\* the search with a dict's values searched before its own target_key
find_by_key_name_values_first(data, target_key, at) ==
    IF IsDict(data)
    THEN IF KeyNameChildren(data, target_key, at, 1).found
         THEN KeyNameChildren(data, target_key, at, 1)
         ELSE IF /\ HasKey(data, target_key)
                 /\ IsList(data.kids[KeyIndex(data, target_key)])
                 /\ Len(data.kids[KeyIndex(data, target_key)].kids) > 0
              THEN Some(Append(at, KeyIndex(data, target_key)))
              ELSE None
    ELSE IF IsList(data)
         THEN KeyNameChildren(data, target_key, at, 1)
         ELSE None

find_by_key_name(data, target_key, at) ==
    IF IsDict(data)
    THEN IF /\ HasKey(data, target_key)
            /\ IsList(data.kids[KeyIndex(data, target_key)])
            /\ Len(data.kids[KeyIndex(data, target_key)].kids) > 0
         THEN Some(Append(at, KeyIndex(data, target_key)))
         ELSE KeyNameChildren(data, target_key, at, 1)
    ELSE IF IsList(data)
         THEN KeyNameChildren(data, target_key, at, 1)
         ELSE None

\* the `for value in data.values()` / `for item in data` loops, from child i
KeyNameChildren(data, target_key, at, i) ==
    IF i > Len(data.kids) THEN None
    ELSE LET child == data.kids[i]
             result == IF IsList(data) /\ ~(IsDict(child) \/ IsList(child))
                       THEN None
                       ELSE find_by_key_name(child, target_key, Append(at, i))
         IN  IF result.found THEN result
             ELSE KeyNameChildren(data, target_key, at, i + 1)

(***************************************************************************)
(* Strategy 3: content inspection (logic.py, _find_by_content_inspection). *)
(***************************************************************************)
\* the heuristic tried on every item of the list
AnyItemMatches(data) ==
    \E i \in 1..Len(data.kids) :
        LET item == data.kids[i]
        IN  /\ IsDict(item)
            /\ (HasKey(item, "Date") \/ HasKey(item, "date"))
            /\ \/ HasKey(item, "Link")
               \/ HasKey(item, "link")
               \/ HasKey(item, "VideoLink")
               \/ HasKey(item, "videolink")

\* the heuristic on data[0]: a dict with a date key and a link key
FirstItemMatches(data) ==
    /\ Len(data.kids) > 0
    /\ LET first_item == data.kids[1]
       IN  /\ IsDict(first_item)
           /\ (HasKey(first_item, "Date") \/ HasKey(first_item, "date"))
           /\ \/ HasKey(first_item, "Link")
              \/ HasKey(first_item, "link")
              \/ HasKey(first_item, "VideoLink")
              \/ HasKey(first_item, "videolink")

RECURSIVE find_by_content_inspection(_, _)
RECURSIVE ContentChildren(_, _, _)

find_by_content_inspection(data, at) ==
    IF IsDict(data)
    THEN ContentChildren(data, at, 1)
    ELSE IF IsList(data)
         THEN IF FirstItemMatches(data) THEN Some(at)
              ELSE ContentChildren(data, at, 1)
         ELSE None

ContentChildren(data, at, i) ==
    IF i > Len(data.kids) THEN None
    ELSE LET child == data.kids[i]
             result == IF IsList(data) /\ ~(IsDict(child) \/ IsList(child))
                       THEN None
                       ELSE find_by_content_inspection(child, Append(at, i))
         IN  IF result.found THEN result
             ELSE ContentChildren(data, at, i + 1)

\* find_video_list: the backward-compatible alias (logic.py)
find_video_list(data) == find_by_content_inspection(data, <<>>)

(***************************************************************************)
(* Tables (pandas DataFrame).  A table has its column labels in order, the *)
(* index labels of its rows (the positions of the records in the source    *)
(* list, which dropna keeps) and its rows, each a sequence of cells        *)
(* aligned with the columns.  A cell is a string, a timestamp (the parsed  *)
(* date, with its hour of day), NaT, NaN (a key the record does not have), *)
(* None (a JSON null) or a nested object.                                  *)
(***************************************************************************)
CellStr(s) == [t |-> "str", s |-> s, h |-> 0]
Timestamp(h) == [t |-> "ts", s |-> "", h |-> h]
NaT == [t |-> "NaT", s |-> "", h |-> 0]
NaN == [t |-> "NaN", s |-> "", h |-> 0]
NoneCell == [t |-> "None", s |-> "", h |-> 0]
ObjCell == [t |-> "obj", s |-> "", h |-> 0]

NoFrame == [columns |-> <<>>, index |-> <<>>, rows |-> <<>>]

CellOf(n) ==
    IF n.k = "str" THEN CellStr(n.s)
    ELSE IF n.k = "null" THEN NoneCell
    ELSE ObjCell

InSeq(x, seq) == \E i \in 1..Len(seq) : seq[i] = x
IndexOf(x, seq) == CHOOSE i \in 1..Len(seq) : seq[i] = x

\* the column labels of a list of dicts: every key, in order of first appearance
RECURSIVE AddKeys(_, _)
AddKeys(columns, keys) ==
    IF keys = <<>> THEN columns
    ELSE AddKeys(IF InSeq(Head(keys), columns) THEN columns
                 ELSE Append(columns, Head(keys)), Tail(keys))

RECURSIVE UnionKeys(_, _)
UnionKeys(columns, items) ==
    IF items = <<>> THEN columns
    ELSE UnionKeys(AddKeys(columns, Head(items).keys), Tail(items))

\* pd.DataFrame(video_list) can raise: a list of dicts with an item that is no dict
FrameRaises(video_list) ==
    /\ IsDict(video_list.kids[1])
    /\ \E i \in 1..Len(video_list.kids) : ~IsDict(video_list.kids[i])

\* the default column labels 0, 1, ... of a frame built from rows without names
RangeLabels == <<"0", "1", "2", "3">>

RECURSIVE MaxWidth(_)
MaxWidth(items) ==
    IF items = <<>> THEN 0
    ELSE LET w == Len(Head(items).kids)
             rest == MaxWidth(Tail(items))
         IN  IF w > rest THEN w ELSE rest

\* pd.DataFrame(video_list): one row per item.  A list of dicts has the keys
\* as columns; a list of lists has one column per position of the longest
\* item, the shorter rows filled with None; a list of scalars is one column.
DataFrame(video_list) ==
    LET items == video_list.kids
        columns == IF IsDict(items[1]) THEN UnionKeys(<<>>, items)
                   ELSE IF IsList(items[1]) THEN SubSeq(RangeLabels, 1, MaxWidth(items))
                   ELSE <<"0">>
    IN  [columns |-> columns,
         index |-> [i \in 1..Len(items) |-> i - 1],
         rows |-> [i \in 1..Len(items) |->
                     IF IsDict(items[1])
                     THEN [c \in 1..Len(columns) |->
                             IF HasKey(items[i], columns[c])
                             THEN CellOf(items[i].kids[KeyIndex(items[i], columns[c])])
                             ELSE NaN]
                     ELSE IF IsList(items[1])
                     THEN [c \in 1..Len(columns) |->
                             IF c <= Len(items[i].kids) THEN CellOf(items[i].kids[c])
                             ELSE NoneCell]
                     ELSE <<CellOf(items[i])>>]]

\* df.empty: no rows or no columns
FrameEmpty(df) == Len(df.rows) = 0 \/ Len(df.columns) = 0

\* df.rename(columns=mapping); mapping is a function on the labels it renames
Rename(df, mapping) ==
    [df EXCEPT !.columns =
        [c \in 1..Len(df.columns) |->
            IF df.columns[c] \in DOMAIN mapping THEN mapping[df.columns[c]]
            ELSE df.columns[c]]]

\* the date texts pd.to_datetime parses, with the hour of day each one holds
DateHours ==
    [s \in {"2023-05-01 03:15:00", "2023-05-01 14:00:00"} |->
        IF s = "2023-05-01 03:15:00" THEN 3 ELSE 14]

\* pd.to_datetime(value, errors='coerce') of one cell
to_datetime(c) ==
    IF c.t = "ts" THEN c
    ELSE IF c.t = "str" /\ c.s \in DOMAIN DateHours
         THEN Timestamp(DateHours[c.s])
         ELSE NaT

SelectIdx(seq, keep) ==
    LET F[i \in 0..Len(seq)] ==
            IF i = 0 THEN <<>>
            ELSE IF keep[i] THEN Append(F[i - 1], seq[i]) ELSE F[i - 1]
    IN  F[Len(seq)]

\* df['Date'] = pd.to_datetime(df['Date'], errors='coerce'); df.dropna(subset=['Date'])
ParseAndDrop(df) ==
    LET d == IndexOf("Date", df.columns)
        parsed == [i \in 1..Len(df.rows) |->
                     [df.rows[i] EXCEPT ![d] = to_datetime(df.rows[i][d])]]
        keep == [i \in 1..Len(df.rows) |-> parsed[i][d].t = "ts"]
    IN  [columns |-> df.columns,
         index |-> SelectIdx(df.index, keep),
         rows |-> SelectIdx(parsed, keep)]

\* the first renames without the test that the target is absent
column_mapping_unguarded(df) ==
    LET pairs == {p \in {<<"date", "Date">>, <<"link", "Link">>,
                         <<"videolink", "VideoLink">>} :
                     InSeq(p[1], df.columns)}
    IN  [k \in {p[1] : p \in pairs} |->
            (CHOOSE p \in pairs : p[1] = k)[2]]

\* the first renames: lower-case labels to their capitalised form
column_mapping(df) ==
    LET pairs == {p \in {<<"date", "Date">>, <<"link", "Link">>,
                         <<"videolink", "VideoLink">>} :
                     InSeq(p[1], df.columns) /\ ~InSeq(p[2], df.columns)}
    IN  [k \in {p[1] : p \in pairs} |->
            (CHOOSE p \in pairs : p[1] = k)[2]]

LowerRenamed(df) ==
    IF DOMAIN column_mapping(df) # {} THEN Rename(df, column_mapping(df)) ELSE df

LinkRenamed(df) ==
    IF InSeq("Link", df.columns) /\ ~InSeq("VideoLink", df.columns)
    THEN Rename(df, [k \in {"Link"} |-> "VideoLink"])
    ELSE df

\* the normalisation of process_json (logic.py, lines 209-234)
Normalize(df) ==
    LET renamed == LinkRenamed(LowerRenamed(df))
    IN  IF InSeq("Date", renamed.columns) THEN ParseAndDrop(renamed) ELSE renamed

(***************************************************************************)
(* The input documents.  Four bounded families of parsed documents, the    *)
(* values Python holds to be empty, and a file that is no JSON at all.     *)
(***************************************************************************)
Opt(present, x) == IF present THEN <<x>> ELSE <<>>

RECURSIVE Reverse(_)
Reverse(seq) == IF seq = <<>> THEN <<>> ELSE Append(Reverse(Tail(seq)), Head(seq))

\* a view record with a date and a link, and one with neither
HistRecord == Map(<<"Date", "Link">>, <<Str("2023-05-01 14:00:00"), Str("https://v/1")>>)
PlainRecord == Map(<<"Name">>, <<Str("x")>>)

\* Family 1: what each of the five places of a document holds
SlotVals == {"absent", "empty", "scalar", "plain", "hist", "wrapped"}

Final(v) ==
    CASE v = "empty" -> List(<<>>)
      [] v = "scalar" -> Str("x")
      [] v = "plain" -> List(<<PlainRecord>>)
      [] OTHER -> List(<<HistRecord>>)

\* the value under the key before `key`: a map holding `key`, or (wrapped) a
\* list around such a map, which no known path walks through
Holder(v, key) ==
    IF v = "wrapped" THEN List(<<Map(<<key>>, <<Final("hist")>>)>>)
    ELSE Map(<<key>>, <<Final(v)>>)

StructDoc(s1, s2, s3, s4, s5, reversed) ==
    LET activity ==
            Map(Opt(s1 # "absent", "Video Browsing History")
                    \o Opt(s2 # "absent", "Favorite Videos"),
                Opt(s1 # "absent", Holder(s1, "VideoList"))
                    \o Opt(s2 # "absent", Holder(s2, "FavoriteVideoList")))
        hasActivity == s1 # "absent" \/ s2 # "absent"
        keys == Opt(hasActivity, "Activity")
                    \o Opt(s3 # "absent", "Video Browsing History")
                    \o Opt(s4 # "absent", "Profile")
                    \o Opt(s5 # "absent", "Items")
        kids == Opt(hasActivity, activity)
                    \o Opt(s3 # "absent", Holder(s3, "VideoList"))
                    \o Opt(s4 # "absent", Holder(s4, "VideoList"))
                    \o Opt(s5 # "absent",
                           IF s5 = "wrapped" THEN Holder(s5, "Name") ELSE Final(s5))
    IN  IF reversed THEN Map(Reverse(keys), Reverse(kids)) ELSE Map(keys, kids)

StructDocs ==
    {StructDoc(s1, s2, s3, s4, s5, r) :
        s1 \in SlotVals, s2 \in {"absent", "empty", "hist"}, s3 \in SlotVals,
        s4 \in SlotVals \ {"scalar"}, s5 \in SlotVals \ {"empty", "scalar"},
        r \in BOOLEAN}

\* Family 2: {"VideoList": [records]}, each record with at most one date key
\* and at most one link key
DateTexts == {"2023-05-01 03:15:00", "not a date"}
DateKeys == {"Date", "date"}
LinkKeys == {"Link", "link", "VideoLink", "videolink"}

Records ==
    {Map(Opt(dk # "", dk) \o Opt(lk # "", lk),
         Opt(dk # "", Str(dv)) \o Opt(lk # "", Str("https://v/1"))) :
        dk \in DateKeys \cup {""}, dv \in DateTexts, lk \in LinkKeys \cup {""}}

RecordLists == UNION {[1..n -> Records] : n \in 1..MaxRecs}

RecordDocs == {Map(<<"VideoList">>, <<List(l)>>) : l \in RecordLists}

\* Family 3: {"VideoList": [record]}, the record with any of the six column
\* names the normalisation knows
ColumnNames == <<"Date", "date", "Link", "link", "VideoLink", "videolink">>

ColumnRecord(present) ==
    Map(SelectIdx(ColumnNames, present),
        SelectIdx(<<Str("2023-05-01 14:00:00"), Str("2023-05-01 03:15:00"),
                    Str("https://v/1"), Str("https://v/2"),
                    Str("https://v/3"), Str("https://v/4")>>, present))

ColumnDocs ==
    {Map(<<"VideoList">>, <<List(<<ColumnRecord(present)>>)>>) :
        present \in [1..6 -> BOOLEAN] \ {[i \in 1..6 |-> FALSE]}}

\* Family 4: small nested documents of maps with the keys VideoList and Name
\* and of lists, over a scalar and a view record; a list that starts with a
\* list holds only lists
NestKeys == {"VideoList", "Name"}

Grow(S) ==
    S \cup {List(<<>>)}
      \cup {List(<<a>>) : a \in S}
      \cup UNION {{List(<<a, b>>) : b \in {x \in S : IsList(a) => IsList(x)}} : a \in S}
      \cup {Map(<<k>>, <<a>>) : k \in NestKeys, a \in S}
      \cup {Map(<<k, CHOOSE j \in NestKeys : j # k>>, <<a, b>>) : k \in NestKeys, a \in S, b \in S}

Wrap(S) == {List(<<a>>) : a \in S} \cup {Map(<<k>>, <<a>>) : k \in NestKeys, a \in S}

NestLeaves == {Str("x"), HistRecord}
Nest1 == Grow(NestLeaves)
Nest2 == Grow(Nest1)
Nest3 ==
    {Map(<<k, CHOOSE j \in NestKeys : j # k>>, <<a, b>>) : k \in NestKeys, a \in Wrap(Nest1), b \in Nest1}
      \cup UNION {{List(<<a, b>>) : b \in {x \in Nest1 : IsList(a) => IsList(x)}} : a \in Wrap(Nest1)}

NestDocs == Nest2 \cup Nest3

\* the parsed values Python holds to be false: None, {}, [] and ""
EmptyDocs == {Null, Map(<<>>, <<>>), List(<<>>), Str("")}
\* `json_data is None` in place of `not json_data`
FalsyNoneOnly(n) == n = Null
\* `not json_data`
Falsy(n) == n \in EmptyDocs

File(valid, doc) == [valid |-> valid, doc |-> doc]
Files ==
    {File(FALSE, Null)}
        \cup {File(TRUE, d) : d \in EmptyDocs \cup {Str("x")} \cup StructDocs \cup RecordDocs
                                 \cup ColumnDocs \cup NestDocs}

\* exact fractions num/den in lowest terms, for the float results
RECURSIVE GCD(_, _)
GCD(a, b) == IF b = 0 THEN a ELSE GCD(b, a % b)
Frac(n, d) == [num |-> n \div GCD(n, d), den |-> d \div GCD(n, d)]

\* hours in fixed point: whole hours and hundred-thousandths of an hour
Hrs(w, f) == [whole |-> w, frac |-> f]

NoStats == [total_videos |-> 0, total_hours |-> Frac(0, 1), total_days |-> Frac(0, 1)]
NoPersona == [title |-> "", desc |-> "", hour |-> ""]

(***************************************************************************)
(* State.                                                                  *)
(***************************************************************************)
VARIABLES
    file_obj,     \* the uploaded file: valid JSON or not, and the document it holds
    pc,           \* position in process_json
    json_data,    \* the parsed document
    calls,        \* the strategies find_video_history has run, in order
    video_list,   \* the result of find_video_history: None or a node of json_data
    df,           \* the table
    error,        \* the kind of the exception raised, "" if none
    avg_duration, \* the avg_duration last passed to calculate_stats
    stats,        \* the last result of calculate_stats
    guilt_mode,   \* the guilt_mode last passed to get_persona
    persona,      \* the last result of get_persona
    hours,        \* the total_hours the comparison list is built for
    items,        \* the last comparison list built
    items_by      \* what built it: "logic" (get_absurd_items), "app" (dashboard), "" (none yet)

vars == <<file_obj, pc, json_data, calls, video_list, df, error,
          avg_duration, stats, guilt_mode, persona, hours, items, items_by>>
absurd == <<hours, items, items_by>>
insight == <<avg_duration, stats, guilt_mode, persona, hours, items, items_by>>

Init ==
    /\ file_obj \in Files
    /\ pc = "load"
    /\ json_data = Null
    /\ calls = <<>>
    /\ video_list = None
    /\ df = NoFrame
    /\ error = ""
    /\ avg_duration = 0
    /\ stats = NoStats
    /\ guilt_mode = FALSE
    /\ persona = NoPersona
    /\ hours = Hrs(0, 0)
    /\ items = <<>>
    /\ items_by = ""

Raise(kind) == pc' = "error" /\ error' = kind

\* json.load(file_obj) (logic.py, lines 180-186)
JsonLoad ==
    /\ pc = "load"
    /\ IF file_obj.valid
       THEN json_data' = file_obj.doc /\ pc' = "check_empty" /\ UNCHANGED error
       ELSE Raise("InvalidJson") /\ UNCHANGED json_data
    /\ UNCHANGED <<file_obj, calls, video_list, df, insight>>

\* `if not json_data` (logic.py, lines 188-190)
CheckEmpty ==
    /\ pc = "check_empty"
    /\ IF Falsy(json_data) THEN Raise("Empty")
       ELSE pc' = "known_paths" /\ UNCHANGED error
    /\ UNCHANGED <<file_obj, json_data, calls, video_list, df, insight>>

\* find_video_history, strategy 1 (logic.py, lines 135-138)
KnownPaths ==
    /\ pc = "known_paths"
    /\ calls' = Append(calls, "known_paths")
    /\ video_list' = find_by_known_paths(json_data)
    /\ pc' = IF video_list'.found THEN "validate" ELSE "key_name"
    /\ UNCHANGED <<file_obj, json_data, df, error, insight>>

\* strategy 2 with content inspection consulted first
KeyNameAfterContent ==
    /\ pc = "key_name"
    /\ calls' = Append(calls, "key_name")
    /\ video_list' = IF find_by_content_inspection(json_data, <<>>).found
                     THEN find_by_content_inspection(json_data, <<>>)
                     ELSE find_by_key_name(json_data, "VideoList", <<>>)
    /\ pc' = IF video_list'.found THEN "validate" ELSE "content"
    /\ UNCHANGED <<file_obj, json_data, df, error, insight>>

\* find_video_history, strategy 2 (logic.py, lines 140-143)
KeyName ==
    /\ pc = "key_name"
    /\ calls' = Append(calls, "key_name")
    /\ video_list' = find_by_key_name(json_data, "VideoList", <<>>)
    /\ pc' = IF video_list'.found THEN "validate" ELSE "content"
    /\ UNCHANGED <<file_obj, json_data, df, error, insight>>

\* find_video_history, strategy 3 and the final return (logic.py, lines 145-150)
ContentInspection ==
    /\ pc = "content"
    /\ calls' = Append(calls, "content")
    /\ video_list' = find_by_content_inspection(json_data, <<>>)
    /\ pc' = "validate"
    /\ UNCHANGED <<file_obj, json_data, df, error, insight>>

\* `if video_list is None` (logic.py, lines 195-197)
Validate ==
    /\ pc = "validate"
    /\ IF video_list.found THEN pc' = "frame" /\ UNCHANGED error
       ELSE Raise("NotFound")
    /\ UNCHANGED <<file_obj, json_data, calls, video_list, df, insight>>

\* pd.DataFrame(video_list) and the df.empty test (logic.py, lines 199-207)
CreateFrame ==
    /\ pc = "frame"
    /\ LET list == NodeAt(json_data, video_list.path)
       IN  IF FrameRaises(list)
           THEN Raise("Conversion") /\ UNCHANGED df
           ELSE /\ df' = DataFrame(list)
                /\ IF FrameEmpty(df') THEN Raise("EmptyList")
                   ELSE pc' = "normalize" /\ UNCHANGED error
    /\ UNCHANGED <<file_obj, json_data, calls, video_list, insight>>

\* the renames, the date parsing and the return (logic.py, lines 209-234)
NormalizeFrame ==
    /\ pc = "normalize"
    /\ df' = Normalize(df)
    /\ pc' = "done"
    /\ UNCHANGED <<file_obj, json_data, calls, video_list, error, insight>>

Next ==
    \/ JsonLoad
    \/ CheckEmpty
    \/ KnownPaths
    \/ KeyName
    \/ ContentInspection
    \/ Validate
    \/ CreateFrame
    \/ NormalizeFrame

Spec == Init /\ [][Next]_vars

(***************************************************************************)
(* The insight engine: calculate_stats and get_persona (logic.py), which   *)
(* the dashboard repeats inline (app.py).                                  *)
(***************************************************************************)
\* calculate_stats with the seconds divided by 60
calculate_stats_minutes(table, avg) ==
    LET total_videos == Len(table.rows)
        total_hours == Frac(total_videos * avg, 60)
    IN  [total_videos |-> total_videos,
         total_hours |-> total_hours,
         total_days |-> Frac(total_hours.num, total_hours.den * 24)]

\* calculate_stats(df, avg_duration) (logic.py, lines 237-257)
calculate_stats(table, avg) ==
    LET total_videos == Len(table.rows)
        total_seconds == total_videos * avg
        total_hours == Frac(total_seconds, 3600)
        total_days == Frac(total_hours.num, total_hours.den * 24)
    IN  [total_videos |-> total_videos,
         total_hours |-> total_hours,
         total_days |-> total_days]

\* get_period(hour), the local function of get_persona (logic.py, lines 275-283)
get_period(hour) ==
    IF 23 <= hour \/ hour <= 5 THEN "Night"
    ELSE IF 6 <= hour /\ hour <= 11 THEN "Morning"
    ELSE IF 12 <= hour /\ hour <= 17 THEN "Afternoon"
    ELSE "Evening"

IntCell(n) == [t |-> "int", s |-> "", h |-> n]

\* df['Hour'] = df['Date'].dt.hour: a new last column, or the old one overwritten
WithHour(table) ==
    LET d == IndexOf("Date", table.columns)
    IN  IF InSeq("Hour", table.columns)
        THEN [table EXCEPT !.rows =
                [i \in 1..Len(table.rows) |->
                    [table.rows[i] EXCEPT ![IndexOf("Hour", table.columns)] =
                        IntCell(table.rows[i][d].h)]]]
        ELSE [table EXCEPT
                !.columns = Append(table.columns, "Hour"),
                !.rows = [i \in 1..Len(table.rows) |->
                            Append(table.rows[i], IntCell(table.rows[i][d].h))]]

\* df.groupby('Hour').size(): the views of every hour that occurs
hourly_counts(table) ==
    LET c == IndexOf("Hour", table.columns)
    IN  [h \in {table.rows[i][c].h : i \in 1..Len(table.rows)} |->
            Cardinality({i \in 1..Len(table.rows) : table.rows[i][c].h = h})]

RECURSIVE SumOver(_, _)
SumOver(f, S) ==
    IF S = {} THEN 0
    ELSE LET x == CHOOSE y \in S : TRUE IN f[x] + SumOver(f, S \ {x})

\* hourly_counts.groupby('Period')['Views'].sum(): the periods that occur
period_counts(hourly) ==
    [p \in {get_period(h) : h \in DOMAIN hourly} |->
        SumOver(hourly, {h \in DOMAIN hourly : get_period(h) = p})]

\* the labels of a groupby result come sorted
SortedPeriods == <<"Afternoon", "Evening", "Morning", "Night">>

\* the first label of the series, whatever its value
idxfirst(counts) ==
    SortedPeriods[CHOOSE i \in 1..4 :
        /\ SortedPeriods[i] \in DOMAIN counts
        /\ \A j \in 1..(i - 1) : SortedPeriods[j] \notin DOMAIN counts]

\* Series.idxmax(): the first label, in the order of the series, of the maximum
idxmax(counts) ==
    LET i == CHOOSE i \in 1..4 :
                /\ SortedPeriods[i] \in DOMAIN counts
                /\ \A j \in 1..4 : SortedPeriods[j] \in DOMAIN counts =>
                       /\ counts[SortedPeriods[j]] <= counts[SortedPeriods[i]]
                       /\ j < i => counts[SortedPeriods[j]] < counts[SortedPeriods[i]]
    IN  SortedPeriods[i]

\* the two persona tables (logic.py, lines 293-306), the icons left out
personas(guilt) ==
    IF guilt
    THEN [Night |-> <<"Sleep Deprived Zombie",
                      "You're sacrificing your health for late-night scrolling. Your future self will thank you for stopping.">>,
          Morning |-> <<"Caffeine-Dependent Scroller",
                        "Starting your day with TikTok instead of purpose. What a way to set the tone.">>,
          Afternoon |-> <<"Productivity Killer",
                          "The middle of the day, prime time for getting things done. But here you are, scrolling.">>,
          Evening |-> <<"Mindless Binger",
                        "Winding down? More like winding up your dopamine receptors. Sleep quality? What's that?">>]
    ELSE [Night |-> <<"The Night Owl", "You spend your night hours trapped in the scroll loop.">>,
          Morning |-> <<"The Early Bird", "You spend your morning hours trapped in the scroll loop.">>,
          Afternoon |-> <<"The Lunchtime Scroller", "You spend your afternoon hours trapped in the scroll loop.">>,
          Evening |-> <<"The Evening Binger", "You spend your evening hours trapped in the scroll loop.">>]

\* get_persona with the peak period taken differently in guilt mode
get_persona_guilt_first(table, guilt) ==
    LET counts == period_counts(hourly_counts(WithHour(table)))
        peak_period == IF guilt THEN idxfirst(counts) ELSE idxmax(counts)
    IN  [title |-> personas(guilt)[peak_period][1],
         desc |-> personas(guilt)[peak_period][2],
         hour |-> peak_period]

\* the value get_persona returns for a table with at least one row
get_persona(table, guilt) ==
    LET peak_period == idxmax(period_counts(hourly_counts(WithHour(table))))
    IN  [title |-> personas(guilt)[peak_period][1],
         desc |-> personas(guilt)[peak_period][2],
         hour |-> peak_period]

\* the tables the engine is handed: a Date column of timestamps and a
\* VideoLink column, the hours drawn from the ends of the four periods and
\* the middle of the afternoon
Hours == {5, 6, 11, 12, 14, 17, 18, 22, 23}

TableOf(hs) ==
    [columns |-> <<"Date", "VideoLink">>,
     index |-> [i \in 1..Len(hs) |-> i - 1],
     rows |-> [i \in 1..Len(hs) |-> <<Timestamp(hs[i]), CellStr("https://v/1")>>]]

\* a table process_json returns for records that have no date key
UndatedTable ==
    [columns |-> <<"VideoLink">>, index |-> <<0>>, rows |-> << <<CellStr("https://v/1")>> >>]

Tables ==
    {TableOf(hs) : hs \in UNION {[1..n -> Hours] : n \in 0..MaxRows}} \cup {UndatedTable}

InitInsight ==
    /\ file_obj = File(FALSE, Null)
    /\ pc = "table"
    /\ json_data = Null
    /\ calls = <<>>
    /\ video_list = None
    /\ df \in Tables
    /\ error = ""
    /\ avg_duration = 0
    /\ stats = NoStats
    /\ guilt_mode = FALSE
    /\ persona = NoPersona
    /\ hours = Hrs(0, 0)
    /\ items = <<>>
    /\ items_by = ""

\* calculate_stats(df, avg_duration), for any positive avg_duration
CalculateStats ==
    /\ pc = "table"
    /\ \E avg \in 1..MaxAvg :
          /\ avg_duration' = avg
          /\ stats' = calculate_stats(df, avg)
    /\ UNCHANGED <<file_obj, pc, json_data, calls, video_list, df, error,
                   guilt_mode, persona, absurd>>

\* get_persona(df, guilt_mode): df['Date'] raises KeyError without the column,
\* idxmax raises ValueError on a table without rows, after the Hour column is set
GetPersona ==
    /\ pc = "table"
    /\ \E guilt \in BOOLEAN :
          /\ guilt_mode' = guilt
          /\ IF ~InSeq("Date", df.columns)
             THEN Raise("KeyError") /\ UNCHANGED <<df, persona>>
             ELSE /\ df' = WithHour(df)
                  /\ IF Len(df.rows) = 0
                     THEN Raise("ValueError") /\ UNCHANGED persona
                     ELSE /\ persona' = get_persona(df, guilt)
                          /\ UNCHANGED <<pc, error>>
    /\ UNCHANGED <<file_obj, json_data, calls, video_list, avg_duration, stats, absurd>>

NextInsight ==
    \/ CalculateStats
    \/ GetPersona

SpecInsight == InitInsight /\ [][NextInsight]_vars

(***************************************************************************)
(* The comparison lists: get_absurd_items (logic.py) and the list the      *)
(* dashboard builds inline (app.py).  total_hours is held in fixed point,  *)
(* whole hours and hundred-thousandths of an hour (frac in 0..99999), so   *)
(* that every threshold of both lists is exact; an entry is its text with  *)
(* {} for the count, and the count.                                        *)
(***************************************************************************)
\* total_hours >= w + f / 100000
AtLeast(h, w, f) == h.whole > w \/ (h.whole = w /\ h.frac >= f)

\* int(total_hours / u) for a unit of u hundred-thousandths that divides an hour
PerFine(h, u) == h.whole * (100000 \div u) + h.frac \div u
\* int(total_hours / (m / 1000)) for a unit of m thousandths of an hour
PerMilli(h, m) == (h.whole * 1000 + h.frac \div 100) \div m
\* int(total_hours * r) for a whole rate r per hour, r a multiple of 100
Times(h, r) == h.whole * r + (h.frac * (r \div 100)) \div 1000

Counted(text, n) == [text |-> text, counted |-> TRUE, count |-> n]
Phrase(text) == [text |-> text, counted |-> FALSE, count |-> 0]

\* get_absurd_items with the heart-beat rule not guarded by its threshold
get_absurd_items_unguarded(h) ==
    Opt(AtLeast(h, 0, 5000), Counted("Cook {} packs of instant noodles", PerFine(h, 5000)))
    \o Opt(AtLeast(h, 0, 83), Counted("Blink {} times", Times(h, 1200)))
    \o <<Counted("Your heart beat {} times", Times(h, 4800))>>

\* get_absurd_items(total_hours) (logic.py, lines 317-367)
get_absurd_items(h) ==
    LET scroll_meters == Times(h, 300)
        burj_count == scroll_meters \div 828
    IN  Opt(AtLeast(h, 0, 5000), Counted("Cook {} packs of instant noodles", PerFine(h, 5000)))
        \o Opt(AtLeast(h, 0, 83), Counted("Blink {} times", Times(h, 1200)))
        \o Opt(AtLeast(h, 60, 0), Counted("Climb Mt. Everest {} times", h.whole \div 60))
        \o Opt(AtLeast(h, 3, 23300), Counted("Watch \"Titanic\" {} times", PerMilli(h, 3233)))
        \o Opt(AtLeast(h, 90, 0), Counted("Walk from London to Paris {} times", h.whole \div 90))
        \o Opt(AtLeast(h, 0, 21), Counted("Your heart beat {} times", Times(h, 4800)))
        \o Opt(AtLeast(h, 0, 330) /\ burj_count > 0,
               Counted("Scroll the height of the Burj Khalifa {} times", burj_count))

\* the Moon rule of the dashboard (app.py, lines 186-190)
moon_items(h) ==
    IF AtLeast(h, 76880, 0) THEN <<Phrase("Walk to the Moon and back")>>
    ELSE IF AtLeast(h, 38440, 0) THEN <<Phrase("Walk to the Moon (one way)")>>
    ELSE <<>>

\* the absurd_items of the dashboard (app.py, lines 168-215)
dashboard_absurd_items(h) ==
    Opt(AtLeast(h, 0, 5000), Counted("Cook {} packs of instant noodles", PerFine(h, 5000)))
    \o Opt(AtLeast(h, 0, 8300), Counted("Pet a cat {} times", PerMilli(h, 83)))
    \o Opt(AtLeast(h, 35000, 0), Counted("Become President of Argentina {} times", h.whole \div 35000))
    \o moon_items(h)
    \o Opt(AtLeast(h, 1000, 0), Counted("Watch the entire One Piece anime {} times", h.whole \div 1000))
    \o Opt(AtLeast(h, 10000, 0), Counted("Overthrow a government {} times", h.whole \div 10000))
    \o Opt(AtLeast(h, 1000, 0), Counted("Learn {} languages to fluency", h.whole \div 1000))
    \o Opt(AtLeast(h, 50, 0), Counted("Read War and Peace {} times", h.whole \div 50))
    \o Opt(AtLeast(h, 100, 0), Counted("Train for and run {} marathons", h.whole \div 100))
    \o Opt(AtLeast(h, 2000, 0), Counted("Build {} houses from scratch", h.whole \div 2000))

\* the total_hours tried: every value below MaxFrac hundred-thousandths, and
\* the values around the thresholds of both lists
MaxFrac == 400

ThresholdHours ==
    {Hrs(0, 3000), Hrs(0, 4999), Hrs(0, 5000), Hrs(0, 8299), Hrs(0, 8300),
     Hrs(0, 15000), Hrs(2, 75999), Hrs(2, 76000), Hrs(3, 23299), Hrs(3, 23300),
     Hrs(4, 16667), Hrs(49, 99999), Hrs(50, 0), Hrs(59, 99999), Hrs(60, 0),
     Hrs(89, 99999), Hrs(90, 0), Hrs(100, 0), Hrs(1000, 0), Hrs(2000, 0),
     Hrs(10000, 0), Hrs(34999, 99999), Hrs(35000, 0), Hrs(38439, 99999),
     Hrs(38440, 0), Hrs(76879, 99999), Hrs(76880, 0), Hrs(100000, 0)}

HourInputs == {Hrs(0, f) : f \in 0..MaxFrac} \cup ThresholdHours

InitAbsurd ==
    /\ file_obj = File(FALSE, Null)
    /\ pc = "hours"
    /\ json_data = Null
    /\ calls = <<>>
    /\ video_list = None
    /\ df = NoFrame
    /\ error = ""
    /\ avg_duration = 0
    /\ stats = NoStats
    /\ guilt_mode = FALSE
    /\ persona = NoPersona
    /\ hours \in HourInputs
    /\ items = <<>>
    /\ items_by = ""

\* get_absurd_items(total_hours)
GetAbsurdItems ==
    /\ pc = "hours"
    /\ items' = get_absurd_items(hours)
    /\ items_by' = "logic"
    /\ UNCHANGED <<file_obj, pc, json_data, calls, video_list, df, error,
                   avg_duration, stats, guilt_mode, persona, hours>>

\* the dashboard building its absurd_items
DashboardAbsurdItems ==
    /\ pc = "hours"
    /\ items' = dashboard_absurd_items(hours)
    /\ items_by' = "app"
    /\ UNCHANGED <<file_obj, pc, json_data, calls, video_list, df, error,
                   avg_duration, stats, guilt_mode, persona, hours>>

NextAbsurd ==
    \/ GetAbsurdItems
    \/ DashboardAbsurdItems

SpecAbsurd == InitAbsurd /\ [][NextAbsurd]_vars

(***************************************************************************)
(* What the claims speak of, stated on the document itself.                *)
(***************************************************************************)
\* every node of a document, by path
RECURSIVE Paths(_)
Paths(n) ==
    {<<>>} \cup UNION {{<<i>> \o q : q \in Paths(n.kids[i])} : i \in 1..Len(n.kids)}

NonEmptyListAt(doc, p) == NodeAt(doc, p).k = "list" /\ NodeAt(doc, p).kids # <<>>

\* p is the node reached from n through maps only, by exactly these keys
RECURSIVE Resolves(_, _, _)
Resolves(n, keys, p) ==
    IF keys = <<>> \/ p = <<>> THEN keys = <<>> /\ p = <<>>
    ELSE /\ n.k = "map"
         /\ n.keys[Head(p)] = Head(keys)
         /\ Resolves(n.kids[Head(p)], Tail(keys), Tail(p))

ListedPaths ==
    << <<"Activity", "Video Browsing History", "VideoList">>,
       <<"Activity", "Favorite Videos", "FavoriteVideoList">>,
       <<"Video Browsing History", "VideoList">> >>

\* listed path i leads to the non-empty sequence p
KnownHit(doc, i, p) == Resolves(doc, ListedPaths[i], p) /\ NonEmptyListAt(doc, p)
KnownHits(doc, i) == {p \in Paths(doc) : KnownHit(doc, i, p)}

Front(p) == SubSeq(p, 1, Len(p) - 1)

\* p is a non-empty sequence held under a key `VideoList` of some map
KeyNameHit(doc, p) ==
    /\ p # <<>>
    /\ NodeAt(doc, Front(p)).k = "map"
    /\ NodeAt(doc, Front(p)).keys[p[Len(p)]] = "VideoList"
    /\ NonEmptyListAt(doc, p)

\* p is a sequence whose first element is a map with a date key and a link key
ContentHit(doc, p) ==
    /\ NonEmptyListAt(doc, p)
    /\ NodeAt(doc, p).kids[1].k = "map"
    /\ \E i \in 1..Len(NodeAt(doc, p).kids[1].keys) :
           NodeAt(doc, p).kids[1].keys[i] \in {"Date", "date"}
    /\ \E i \in 1..Len(NodeAt(doc, p).kids[1].keys) :
           NodeAt(doc, p).kids[1].keys[i] \in {"Link", "link", "VideoLink", "videolink"}

AnyKnown(doc) == \E i \in 1..3 : KnownHits(doc, i) # {}
AnyKeyName(doc) == \E p \in Paths(doc) : KeyNameHit(doc, p)
AnyContent(doc) == \E p \in Paths(doc) : ContentHit(doc, p)

\* find_video_history has returned to process_json
Located == calls # <<>> /\ pc \notin {"known_paths", "key_name", "content"}

\* C1: the three strategies apply in strict priority order and the first one
\* that succeeds gives the result, unmerged: a known-path sequence is returned
\* whatever `VideoList` key or Date+Link list exists elsewhere, and with no
\* known path a `VideoList` sequence is returned whatever content inspection
\* would match; no later strategy runs after a success.
C1_StrictPriority ==
    Located =>
        /\ AnyKnown(json_data) =>
              /\ \E i \in 1..3 : video_list.found /\ video_list.path \in KnownHits(json_data, i)
              /\ calls = <<"known_paths">>
        /\ (~AnyKnown(json_data) /\ AnyKeyName(json_data)) =>
              /\ video_list.found /\ KeyNameHit(json_data, video_list.path)
              /\ calls = <<"known_paths", "key_name">>
        /\ (~AnyKnown(json_data) /\ ~AnyKeyName(json_data) /\ AnyContent(json_data)) =>
              /\ video_list.found /\ ContentHit(json_data, video_list.path)
              /\ calls = <<"known_paths", "key_name", "content">>

\* key-name search has won although content inspection matches another list
C1_Witness ==
    /\ pc = "validate"
    /\ ~AnyKnown(json_data)
    /\ video_list.found /\ KeyNameHit(json_data, video_list.path)
    /\ ~ContentHit(json_data, video_list.path)
    /\ \E q \in Paths(json_data) : ContentHit(json_data, q)

\* C2: when one of the three listed paths resolves to a non-empty sequence,
\* the result is exactly the sequence at the first such path in the listed
\* order; a path with a missing key, a non-map on the way, or an empty or
\* non-sequence end does not succeed and the next path is tried.
C2_FirstKnownPath ==
    Located =>
        \A i \in 1..3 :
            (KnownHits(json_data, i) # {} /\ \A j \in 1..(i - 1) : KnownHits(json_data, j) = {})
                => video_list.found /\ KnownHits(json_data, i) = {video_list.path}

\* the first path ends in an empty sequence (or a scalar), the second succeeds
\* and is returned, and the third would succeed as well
C2_Witness ==
    /\ pc = "validate"
    /\ \E q \in Paths(json_data) :
           Resolves(json_data, ListedPaths[1], q) /\ ~NonEmptyListAt(json_data, q)
    /\ video_list.found /\ video_list.path \in KnownHits(json_data, 2)
    /\ KnownHits(json_data, 3) # {}

\* the documents Python holds to be empty
IsEmptyDocument(doc) ==
    \/ doc.k = "null"
    \/ doc.k \in {"map", "list"} /\ doc.kids = <<>>
    \/ doc.k = "str" /\ doc.s = ""

\* C3: an empty or null parsed document makes process_json fail with the
\* empty-document error before any strategy has run and with no other error.
C3_EmptyFailsFirst ==
    (file_obj.valid /\ IsEmptyDocument(file_obj.doc) /\ pc \notin {"load", "check_empty"})
        => pc = "error" /\ error = "Empty" /\ calls = <<>> /\ ~video_list.found

C3_Witness ==
    /\ pc = "error" /\ error = "Empty"
    /\ file_obj.doc.k = "map" /\ file_obj.doc.kids = <<>>

\* the `video_list is None` test is behind
Validated == Located /\ pc # "validate"

\* C4: for a non-empty document the not-found error is raised exactly when
\* none of the three strategies finds a list, and a result that is not the
\* failure is a non-empty sequence that is one node of the document.
C4_NotFoundExactly ==
    Validated =>
        /\ (pc = "error" /\ error = "NotFound")
              <=> ~(AnyKnown(json_data) \/ AnyKeyName(json_data) \/ AnyContent(json_data))
        /\ ~(pc = "error" /\ error = "NotFound") =>
              /\ video_list.found
              /\ video_list.path \in Paths(json_data)
              /\ NonEmptyListAt(json_data, video_list.path)

\* a document with lists, all of them empty or without a date and a link,
\* and no `VideoList` key over a non-empty list: not found
C4_Witness ==
    /\ pc = "error" /\ error = "NotFound"
    /\ \E p \in Paths(json_data) : NonEmptyListAt(json_data, p)
    /\ \E p \in Paths(json_data) : NodeAt(json_data, p).k = "list" /\ NodeAt(json_data, p).kids = <<>>

(***************************************************************************)
(* The table process_json returns.                                         *)
(***************************************************************************)
\* the records of the located list, and the date text of a record: the value
\* under `Date`, else under `date`
Source == NodeAt(json_data, video_list.path).kids

HasDate(rec) == rec.k = "map" /\ \E i \in 1..Len(rec.keys) : rec.keys[i] \in {"Date", "date"}

DateText(rec) ==
    LET i == IF \E j \in 1..Len(rec.keys) : rec.keys[j] = "Date"
             THEN CHOOSE j \in 1..Len(rec.keys) : rec.keys[j] = "Date"
             ELSE CHOOSE j \in 1..Len(rec.keys) : rec.keys[j] = "date"
    IN  rec.kids[i].s

ParseableTexts == {"2023-05-01 03:15:00", "2023-05-01 14:00:00"}
DateParses(rec) == HasDate(rec) /\ DateText(rec) \in ParseableTexts

\* C5: every table process_json returns has a valid, non-null timestamp in
\* every record, whichever strategy located the list.
C5_EveryRecordHasTimestamp ==
    pc = "done" =>
        /\ \E c \in 1..Len(df.columns) : df.columns[c] = "Date"
        /\ \A i \in 1..Len(df.rows) : \A c \in 1..Len(df.columns) :
               df.columns[c] = "Date" => df.rows[i][c].t = "ts"

\* C6: a located list in which every record's date is unparseable, so that no
\* record is left after the drop, makes process_json fail, not return an
\* empty table.
C6_EmptyResultFails ==
    (pc \in {"done", "error"} /\ video_list.found
        /\ \A i \in 1..Len(Source) : HasDate(Source[i]) /\ ~DateParses(Source[i]))
        => pc = "error"

\* C7: the returned table is exactly the records of the located list whose
\* date parses, in their original order, none removed, added or moved.
C7_ParseableSubsequence ==
    pc = "done" =>
        /\ \A i \in 1..Len(df.index) : \A j \in 1..Len(df.index) :
               i < j => df.index[i] < df.index[j]
        /\ {df.index[i] : i \in 1..Len(df.index)}
               = {k - 1 : k \in {k \in 1..Len(Source) : DateParses(Source[k])}}

\* C8: normalising a table that process_json returned gives the same table:
\* the same columns and the same records in the same order.
C8_NormalizeIdempotent ==
    pc = "done" => Normalize(df) = df

(***************************************************************************)
(* The insight engine.                                                     *)
(***************************************************************************)
Computed == avg_duration > 0

\* C9: total_videos is the number of records of the table, total_hours is
\* total_videos * avg_duration / 3600 and total_days is total_hours / 24.
C9_StatsFormula ==
    Computed =>
        /\ stats.total_videos = Len(df.rows)
        /\ stats.total_hours.den > 0 /\ stats.total_days.den > 0
        /\ stats.total_hours.num * 3600 = stats.total_videos * avg_duration * stats.total_hours.den
        /\ stats.total_days.num * 24 * stats.total_hours.den
               = stats.total_hours.num * stats.total_days.den

\* 3 videos of 2 seconds: 6/3600 = 1/600 of an hour
C9_Witness ==
    /\ Computed /\ Len(df.rows) = 3 /\ avg_duration = 2
    /\ stats.total_hours = [num |-> 1, den |-> 600]

ClaimPeriods ==
    [Night |-> {23, 0, 1, 2, 3, 4, 5}, Morning |-> 6..11,
     Afternoon |-> 12..17, Evening |-> 18..22]

\* the hours of the records of the table, by its Date column
RowHour(i) == df.rows[i][CHOOSE c \in 1..Len(df.columns) : df.columns[c] = "Date"].h
PeriodSum(p) == Cardinality({i \in 1..Len(df.rows) : RowHour(i) \in ClaimPeriods[p]})

\* C10: every hour 0..23 falls in exactly one period, Night = {23,0..5},
\* Morning = {6..11}, Afternoon = {12..17}, Evening = {18..22}; the period
\* get_persona returns has a sum of records at least that of every other
\* period, so it is the period of strictly largest sum when there is one.
C10_PeakPeriod ==
    /\ \A h \in 0..23 : \A p \in DOMAIN ClaimPeriods :
           h \in ClaimPeriods[p] <=> get_period(h) = p
    /\ persona # NoPersona =>
           /\ persona.hour \in DOMAIN ClaimPeriods
           /\ \A q \in DOMAIN ClaimPeriods : PeriodSum(q) <= PeriodSum(persona.hour)

\* two records in the evening (18 and 22) against one at night (23)
C10_Witness ==
    /\ persona # NoPersona /\ persona.hour = "Evening"
    /\ PeriodSum("Evening") = 2 /\ PeriodSum("Night") = 1

\* C11: the period get_persona chooses does not depend on guilt_mode: calls on
\* the same table return the same period whatever the mode (Afternoon for a
\* table with every record at hour 14), and the title and description are the
\* entry of the persona table of that mode for the chosen period.
C11_PeriodIgnoresGuiltMode ==
    /\ [][(persona # NoPersona /\ persona' # NoPersona) => persona'.hour = persona.hour]_vars
    /\ [](persona # NoPersona =>
            /\ persona.title = personas(guilt_mode)[persona.hour][1]
            /\ persona.desc = personas(guilt_mode)[persona.hour][2]
            /\ (\A i \in 1..Len(df.rows) : RowHour(i) = 14) => persona.hour = "Afternoon")

\* every record at hour 14, guilt mode on: the Productivity Killer
C11_Witness ==
    /\ persona # NoPersona /\ guilt_mode
    /\ Len(df.rows) = 2 /\ \A i \in 1..Len(df.rows) : RowHour(i) = 14
    /\ persona.hour = "Afternoon" /\ persona.title = "Productivity Killer"

\* C12: no operation of the core mutates its input: the table passed to
\* calculate_stats or get_persona has the same columns and the same records
\* after the call as before it.
C12_InputTableUnchanged ==
    [][df' = df]_vars


HasEntry(text) == \E i \in 1..Len(items) : items[i].text = text

\* C13: a comparison list never holds both Moon entries: from 76880 hours on
\* it holds "Walk to the Moon and back" and not the one-way entry, from 38440
\* hours up to 76880 it holds the one-way entry and not the round trip, and
\* below 38440 hours it holds neither.
C13_MoonEitherOr ==
    items_by # "" =>
        /\ hours.whole >= 76880 =>
              HasEntry("Walk to the Moon and back") /\ ~HasEntry("Walk to the Moon (one way)")
        /\ (hours.whole >= 38440 /\ hours.whole < 76880) =>
              HasEntry("Walk to the Moon (one way)") /\ ~HasEntry("Walk to the Moon and back")
        /\ hours.whole < 38440 =>
              ~HasEntry("Walk to the Moon and back") /\ ~HasEntry("Walk to the Moon (one way)")

\* C14, as stated: every comparison list built for a total_hours below 0.05
\* is empty.
C14_EmptyBelowNoodles ==
    (items_by # "" /\ hours.whole = 0 /\ hours.frac < 5000) => items = <<>>

\* C14, as the code has it: the list of the dashboard is empty for every
\* total_hours below 0.05; the list of get_absurd_items is empty exactly for
\* the total_hours below 0.00021, and for 0.03 it holds the two entries
\* "Blink 36 times" and "Your heart beat 144 times".
C14_EmptyBelowLowestThreshold ==
    /\ (items_by = "app" /\ hours.whole = 0 /\ hours.frac < 5000) => items = <<>>
    /\ items_by = "logic" => (items = <<>> <=> (hours.whole = 0 /\ hours.frac < 21))
    /\ (items_by = "logic" /\ hours = Hrs(0, 3000)) =>
           items = <<[text |-> "Blink {} times", counted |-> TRUE, count |-> 36],
                     [text |-> "Your heart beat {} times", counted |-> TRUE, count |-> 144]>>

C14_Witness ==
    /\ items_by = "logic" /\ hours = Hrs(0, 3000)
    /\ Len(items) = 2 /\ items[1].count = 36

\* C18: every entry of the list of get_absurd_items that carries a count
\* carries a count of at least 1.
C18_CountsAtLeastOne ==
    items_by = "logic" => \A i \in 1..Len(items) : items[i].counted => items[i].count >= 1

\* node p comes before node q in the pre-order depth-first traversal
RECURSIVE Before(_, _)
Before(p, q) ==
    IF p = <<>> THEN q # <<>>
    ELSE IF q = <<>> THEN FALSE
    ELSE IF Head(p) = Head(q) THEN Before(Tail(p), Tail(q))
    ELSE Head(p) < Head(q)

\* C15: key-name search returns the non-empty sequence under the `VideoList`
\* key of the first map, in pre-order depth-first traversal, that has one (a
\* map comes before everything inside it, children in insertion / positional
\* order); a `VideoList` key with an empty sequence or a non-sequence is no
\* match, and with no match the search returns nothing.
C15_KeyNameFirstInPreOrder ==
    Len(calls) >= 2 =>
        IF AnyKeyName(json_data)
        THEN /\ calls = <<"known_paths", "key_name">>
             /\ video_list.found
             /\ KeyNameHit(json_data, video_list.path)
             /\ \A q \in Paths(json_data) :
                    (KeyNameHit(json_data, q) /\ q # video_list.path)
                        => Before(Front(video_list.path), Front(q))
        ELSE Len(calls) = 2 => ~video_list.found

\* the map's own VideoList key has won over a match inside an earlier value
\* of the same map
C15_Witness ==
    /\ calls = <<"known_paths", "key_name">>
    /\ video_list.found
    /\ \E q \in Paths(json_data) :
          /\ KeyNameHit(json_data, q)
          /\ Len(q) > Len(video_list.path)
          /\ SubSeq(q, 1, Len(video_list.path) - 1) = Front(video_list.path)
          /\ q[Len(video_list.path)] < video_list.path[Len(video_list.path)]

\* C16: content inspection returns the first sequence, in pre-order
\* depth-first traversal, that is non-empty and whose first element is a map
\* with a date key and a link key; only the first element decides, the items
\* of a sequence that does not match are searched, and the search returns
\* nothing only if no sequence of the document matches.
C16_ContentFirstInPreOrder ==
    Len(calls) = 3 =>
        IF AnyContent(json_data)
        THEN /\ video_list.found
             /\ ContentHit(json_data, video_list.path)
             /\ \A q \in Paths(json_data) :
                    (ContentHit(json_data, q) /\ q # video_list.path)
                        => Before(video_list.path, q)
        ELSE ~video_list.found

\* a sequence whose first element does not match, though a later one would,
\* was passed over, and the match was found further on
C16_Witness ==
    /\ Len(calls) = 3
    /\ video_list.found
    /\ \E q \in Paths(json_data) :
          /\ Before(q, video_list.path)
          /\ NonEmptyListAt(json_data, q)
          /\ ~ContentHit(json_data, q)
          /\ \E i \in 2..Len(NodeAt(json_data, q).kids) :
                NodeAt(json_data, q).kids[i] = HistRecord

Has(label, columns) == \E c \in 1..Len(columns) : columns[c] = label

\* the label a source column ends up under, as the claim has it
Renamed(label, columns) ==
    CASE label = "date" -> IF Has("Date", columns) THEN "date" ELSE "Date"
      [] label = "videolink" -> IF Has("VideoLink", columns) THEN "videolink" ELSE "VideoLink"
      [] label = "link" ->
            IF Has("Link", columns) THEN "link"
            ELSE IF Has("VideoLink", columns) \/ Has("videolink", columns) THEN "Link"
            ELSE "VideoLink"
      [] label = "Link" ->
            IF Has("VideoLink", columns) \/ Has("videolink", columns) THEN "Link"
            ELSE "VideoLink"
      [] OTHER -> label

\* C17: normalisation never clobbers a column: date, link and videolink are
\* renamed to Date, Link and VideoLink only when that label is not a column
\* already, Link is then renamed to VideoLink only when VideoLink is absent,
\* the number of columns is unchanged and no two columns end up under the
\* same label.
C17_RenamesNeverClobber ==
    [][(pc = "normalize" /\ pc' = "done") =>
          /\ Len(df'.columns) = Len(df.columns)
          /\ \A c \in 1..Len(df.columns) : df'.columns[c] = Renamed(df.columns[c], df.columns)
          /\ \A c, e \in 1..Len(df'.columns) : df'.columns[c] = df'.columns[e] => c = e]_vars

\* a table with all six labels has come through normalisation
C17_Witness ==
    /\ pc = "done"
    /\ Len(df.columns) = 6
    /\ Has("date", df.columns) /\ Has("link", df.columns) /\ Has("videolink", df.columns)
    /\ Has("Date", df.columns) /\ Has("Link", df.columns) /\ Has("VideoLink", df.columns)
====
